---- MODULE Spec2Model ----
(***************************************************************************)
(* Model of res/bake_and_export.py: the Blender add-on that registers the  *)
(* operator "object.bake_and_export" and, when the operator is executed,   *)
(* bakes and exports every object of the collection named "Collection".    *)
(*                                                                         *)
(* The host (bpy) is modelled by its documented effect on the scene: the   *)
(* set of selected objects, the view layer's active object, the registry   *)
(* of operator classes, the draw functions of the menu VIEW3D_MT_object    *)
(* and the files written by the exporter.  A bpy.ops call either succeeds  *)
(* or raises; the exception is not caught by the script.                   *)
(***************************************************************************)
EXTENDS Naturals, Sequences, FiniteSets

VARIABLES
    collections,  \* bpy.data.collections: collection name -> sequence of objects
    name,         \* obj.name of every scene object (a sequence of characters)
    selected,     \* the selected objects of the scene
    active,       \* bpy.context.view_layer.objects.active
    registered,   \* whether the class BakeAndExport is registered with the host
    menu,         \* the draw functions of bpy.types.VIEW3D_MT_object, in order
    pc,           \* position of the host / of execute()
    i,            \* index of the loop variable obj in collection.objects
    calls,        \* the host operations called by execute(), in order
    files,        \* the files written: [path, content], one per path
    stdout,       \* the lines printed
    ret,          \* the value execute() returned
    selected0,    \* history: the selection when the model starts
    active0,      \* history: the active object when the model starts
    menu0         \* history: the menu before the first register()

vars == <<collections, name, selected, active, registered, menu, pc, i, calls,
          files, stdout, ret, selected0, active0, menu0>>

(***************************************************************************)
(* Bounds                                                                  *)
(***************************************************************************)
MaxColl == 2        \* longest collection.objects
MaxRegCalls == 2    \* register() calls in one behaviour

(***************************************************************************)
(* The scene the operator is run on                                        *)
(***************************************************************************)
None == "None"
Objs == {"o1", "o2", "o3"}

\* Object names: sequences of characters.  Blender keeps object names unique,
\* and the comparison is case-sensitive ("Cu" and "cu" are two names).
Names == { <<"C", "u">>, <<"c", "u">>, <<"/", "L">> }

\* The entries VIEW3D_MT_object holds before the add-on is registered
InitialMenus ==
    { <<>>, <<"VIEW3D_MT_transform_object", "VIEW3D_MT_object_clear">> }

Range(s) == { s[k] : k \in DOMAIN s }

Injective(f) == \A a, b \in DOMAIN f : a # b => f[a] # f[b]

\* collection.objects: sequences of pairwise different objects
ObjSeqs ==
    { s \in UNION { [1..n -> Objs] : n \in 0..MaxColl } : Injective(s) }

(***************************************************************************)
(* Constants of the script                                                 *)
(***************************************************************************)
bl_idname == "object.bake_and_export"

collection_name == "Collection"

\* "C:/dev/rust/rust development/wgpu/New folder/cityscaper/res", by path token
output_directory ==
    << "C:", "/", "dev", "/", "rust", "/", "rust development", "/", "wgpu", "/",
       "New folder", "/", "cityscaper", "/", "res" >>

FINISHED == "{'FINISHED'}"

(***************************************************************************)
(* Pure functions                                                          *)
(***************************************************************************)
\* str.lower(), character by character
LowerChar(c) ==
    CASE c = "C" -> "c"
      [] c = "L" -> "l"
      [] OTHER -> c

Lower(s) == [k \in DOMAIN s |-> LowerChar(s[k])]

\* os.path.join(a, b) (posixpath): an absolute b replaces a; otherwise the two
\* are joined by one separator unless a is empty or already ends with one.
PathJoin(a, b) ==
    IF b # <<>> /\ b[1] = "/" THEN b
    ELSE IF a = <<>> \/ a[Len(a)] = "/" THEN a \o b
    ELSE a \o <<"/">> \o b

FilePath_NoLower(obj_name) == PathJoin(output_directory, obj_name \o <<".obj">>)

\* execute(), lines 30-31: the path the object called obj_name is exported to
FilePath(obj_name) == PathJoin(output_directory, Lower(obj_name) \o <<".obj">>)

\* bpy.data.collections.get(collection_name) is not None
Found == collection_name \in DOMAIN collections

\* collection.objects of the collection execute() works on
Objects == collections[collection_name]

\* keyword arguments of bpy.ops.object.bake
BakeArgs_Combined == [type |-> "COMBINED", target |-> "VERTEX_COLORS"]

BakeArgs == [type |-> "DIFFUSE", target |-> "VERTEX_COLORS"]

\* keyword arguments of bpy.ops.wm.obj_export
ExportArgs(filepath) ==
    [ filepath |-> filepath,
      check_existing |-> FALSE,
      export_selected_objects |-> TRUE,
      export_colors |-> TRUE,
      export_materials |-> FALSE,
      export_triangulated_mesh |-> TRUE,
      filter_glob |-> "*.obj;" ]

\* one host operation called while the loop variable was obj: its arguments,
\* the context it ran in and whether it returned ("ok") or raised ("raised")
Call(op, obj, args, sel, act, result) ==
    [op |-> op, obj |-> obj, args |-> args, selected |-> sel, active |-> act,
     result |-> result]

\* menu_func(self, context): the operator the entry draws
MenuFuncDraws == bl_idname

CountOf(s, e) == Cardinality({ k \in DOMAIN s : s[k] = e })

(***************************************************************************)
(* Initial state: the add-on is loaded, nothing is registered yet           *)
(***************************************************************************)
Init ==
    /\ \E cn \in {collection_name, "Other"} :
         collections \in [{cn} -> ObjSeqs]
    /\ name \in { f \in [Objs -> Names] : Injective(f) }
    /\ selected \in SUBSET Objs
    /\ active \in Objs \cup {None}
    /\ registered = FALSE
    /\ menu \in InitialMenus
    /\ pc = "idle"
    /\ i = 0
    /\ calls = <<>>
    /\ files = {}
    /\ stdout = <<>>
    /\ ret = "not returned"
    /\ selected0 = selected
    /\ active0 = active
    /\ menu0 = menu

(***************************************************************************)
(* Host operations                                                         *)
(***************************************************************************)
\* bpy.ops.object.select_all(action='DESELECT')
SelectAllDeselect == {}

\* obj.select_set(state)
SelectSet(sel, obj, state) == IF state THEN sel \cup {obj} ELSE sel \ {obj}

\* bpy.ops.wm.obj_export(filepath, check_existing=False,
\* export_selected_objects=True): the file at filepath is created or silently
\* replaced and holds the selected objects.
WriteFile(fs, path, content) ==
    { f \in fs : f.path # path } \cup { [path |-> path, content |-> content] }

scene == <<collections, name, selected0, active0, menu0>>
run == <<pc, i, calls, files, stdout, ret>>

(***************************************************************************)
(* register() and unregister()                                             *)
(***************************************************************************)
Register_Prepend ==
    /\ pc = "idle"
    /\ ~registered
    /\ CountOf(menu, "menu_func") < MaxRegCalls
    /\ registered' = TRUE
    /\ menu' = <<"menu_func">> \o menu
    /\ UNCHANGED <<scene, run, selected, active>>

\* register(): the host calls it only while the class is not registered.
Register ==
    /\ pc = "idle"
    /\ ~registered
    /\ CountOf(menu, "menu_func") < MaxRegCalls
    /\ registered' = TRUE                       \* bpy.utils.register_class
    /\ menu' = Append(menu, "menu_func")        \* VIEW3D_MT_object.append
    /\ UNCHANGED <<scene, run, selected, active>>

\* unregister(): the host calls it only while the class is registered.
Unregister ==
    /\ pc = "idle"
    /\ registered
    /\ registered' = FALSE                      \* bpy.utils.unregister_class
    /\ UNCHANGED <<scene, run, selected, active, menu>>

(***************************************************************************)
(* BakeAndExport.execute(), statement by statement                         *)
(***************************************************************************)
CANCELLED == "{'CANCELLED'}"

ExecuteLookup_Cancelled ==
    /\ pc = "idle"
    /\ registered
    /\ IF ~Found
       THEN /\ stdout' = Append(stdout, "Collection not found.")
            /\ ret' = CANCELLED
            /\ pc' = "returned"
       ELSE /\ pc' = "deselect_all"
            /\ UNCHANGED <<stdout, ret>>
    /\ UNCHANGED <<scene, selected, active, registered, menu, i, calls, files>>

\* lines 16-23: the host runs the registered operator; the collection is looked
\* up by name, and a missing collection is logged and ends the run.
ExecuteLookup ==
    /\ pc = "idle"
    /\ registered
    /\ IF ~Found
       THEN /\ stdout' = Append(stdout, "Collection not found.")
            /\ ret' = None
            /\ pc' = "returned"
       ELSE /\ pc' = "deselect_all"
            /\ UNCHANGED <<stdout, ret>>
    /\ UNCHANGED <<scene, selected, active, registered, menu, i, calls, files>>

\* line 25
ExecuteDeselectAll ==
    /\ pc = "deselect_all"
    /\ calls' = Append(calls, Call("select_all", None, [action |-> "DESELECT"],
                                   selected, active, "ok"))
    /\ selected' = SelectAllDeselect
    /\ i' = 1
    /\ pc' = "for"
    /\ UNCHANGED <<scene, active, registered, menu, files, stdout, ret>>

ExecuteFor_StopEarly ==
    /\ pc = "for"
    /\ IF i < Len(Objects)
       THEN /\ pc' = "select"
            /\ UNCHANGED ret
       ELSE /\ ret' = FINISHED
            /\ pc' = "done"
    /\ UNCHANGED <<scene, selected, active, registered, menu, i, calls, files,
                   stdout>>

\* lines 27 and 35: the next object of collection.objects, or the return
ExecuteFor ==
    /\ pc = "for"
    /\ IF i <= Len(Objects)
       THEN /\ pc' = "select"
            /\ UNCHANGED ret
       ELSE /\ ret' = FINISHED
            /\ pc' = "done"
    /\ UNCHANGED <<scene, selected, active, registered, menu, i, calls, files,
                   stdout>>

\* line 28
ExecuteSelect ==
    /\ pc = "select"
    /\ calls' = Append(calls, Call("select_set", Objects[i], [state |-> TRUE],
                                   selected, active, "ok"))
    /\ selected' = SelectSet(selected, Objects[i], TRUE)
    /\ pc' = "bake_lighting"
    /\ UNCHANGED <<scene, active, registered, menu, i, files, stdout, ret>>

BakeLightingPrepare_NoActive ==
    /\ pc = "bake_lighting"
    /\ calls' = calls
                \o << Call("select_all", Objects[i], [action |-> "DESELECT"],
                           selected, active, "ok"),
                      Call("select_set", Objects[i], [state |-> TRUE],
                           SelectAllDeselect, active, "ok") >>
    /\ selected' = SelectSet(SelectAllDeselect, Objects[i], TRUE)
    /\ pc' = "bake"
    /\ UNCHANGED <<scene, active, registered, menu, i, files, stdout, ret>>

\* bake_lighting(obj), lines 50-52: make obj the active and only selected object
BakeLightingPrepare ==
    /\ pc = "bake_lighting"
    /\ active' = Objects[i]
    /\ calls' = calls
                \o << Call("select_all", Objects[i], [action |-> "DESELECT"],
                           selected, Objects[i], "ok"),
                      Call("select_set", Objects[i], [state |-> TRUE],
                           SelectAllDeselect, Objects[i], "ok") >>
    /\ selected' = SelectSet(SelectAllDeselect, Objects[i], TRUE)
    /\ pc' = "bake"
    /\ UNCHANGED <<scene, registered, menu, i, files, stdout, ret>>

\* bake_lighting(obj), lines 54-57: bpy.ops.object.bake succeeds or raises
BakeLightingBake ==
    /\ pc = "bake"
    /\ \/ /\ calls' = Append(calls, Call("bake", Objects[i], BakeArgs,
                                         selected, active, "ok"))
          /\ pc' = "export"
       \/ /\ calls' = Append(calls, Call("bake", Objects[i], BakeArgs,
                                         selected, active, "raised"))
          /\ pc' = "raised"
    /\ UNCHANGED <<scene, selected, active, registered, menu, i, files, stdout,
                   ret>>

ExecuteExport_Swallow ==
    /\ pc = "export"
    /\ \/ /\ calls' = Append(calls, Call("obj_export", Objects[i],
                                         ExportArgs(FilePath(name[Objects[i]])),
                                         selected, active, "ok"))
          /\ files' = WriteFile(files, FilePath(name[Objects[i]]), selected)
          /\ pc' = "deselect"
       \/ /\ calls' = Append(calls, Call("obj_export", Objects[i],
                                         ExportArgs(FilePath(name[Objects[i]])),
                                         selected, active, "raised"))
          /\ pc' = "deselect"
          /\ UNCHANGED files
    /\ UNCHANGED <<scene, selected, active, registered, menu, i, stdout, ret>>

\* lines 30-32 and export_obj(obj, filepath), lines 60-69: bpy.ops.wm.obj_export
\* writes the selected objects to filepath, or raises
ExecuteExport ==
    /\ pc = "export"
    /\ \/ /\ calls' = Append(calls, Call("obj_export", Objects[i],
                                         ExportArgs(FilePath(name[Objects[i]])),
                                         selected, active, "ok"))
          /\ files' = WriteFile(files, FilePath(name[Objects[i]]), selected)
          /\ pc' = "deselect"
       \/ /\ calls' = Append(calls, Call("obj_export", Objects[i],
                                         ExportArgs(FilePath(name[Objects[i]])),
                                         selected, active, "raised"))
          /\ pc' = "raised"
          /\ UNCHANGED files
    /\ UNCHANGED <<scene, selected, active, registered, menu, i, stdout, ret>>

ExecuteDeselect_Omitted ==
    /\ pc = "deselect"
    /\ i' = i + 1
    /\ pc' = "for"
    /\ UNCHANGED <<scene, selected, active, registered, menu, calls, files,
                   stdout, ret>>

\* line 33, and the step to the next iteration
ExecuteDeselect ==
    /\ pc = "deselect"
    /\ calls' = Append(calls, Call("select_set", Objects[i], [state |-> FALSE],
                                   selected, active, "ok"))
    /\ selected' = SelectSet(selected, Objects[i], FALSE)
    /\ i' = i + 1
    /\ pc' = "for"
    /\ UNCHANGED <<scene, active, registered, menu, files, stdout, ret>>

\* the steps of a run of execute() after the lookup
ExecuteRun ==
    \/ ExecuteDeselectAll
    \/ ExecuteFor
    \/ ExecuteSelect
    \/ BakeLightingPrepare
    \/ BakeLightingBake
    \/ ExecuteExport
    \/ ExecuteDeselect

Next ==
    \/ Register
    \/ Unregister
    \/ ExecuteLookup
    \/ ExecuteDeselectAll
    \/ ExecuteFor
    \/ ExecuteSelect
    \/ BakeLightingPrepare
    \/ BakeLightingBake
    \/ ExecuteExport
    \/ ExecuteDeselect

Spec == Init /\ [][Next]_vars

\* execute() is synchronous host code: once it runs, it runs on to its return
\* or to the exception of a host call.
FairSpec == Spec /\ WF_vars(ExecuteRun)

(***************************************************************************)
(* Vocabulary of the properties                                            *)
(***************************************************************************)
IsBakeOrExport(c) == c.op \in {"bake", "obj_export"}

\* the bake and export calls made so far, in order
BakeExportCalls == SelectSeq(calls, IsBakeOrExport)

\* a host call of the run has raised
Failed == \E k \in DOMAIN calls : calls[k].result = "raised"

CallsOf(op, obj) == { k \in DOMAIN calls : calls[k].op = op /\ calls[k].obj = obj }

Paths == { f.path : f \in files }

Running == pc \in {"deselect_all", "for", "select", "bake_lighting", "bake",
                   "export", "deselect"}

(***************************************************************************)
(* C1: when the collection exists and no host call fails, a finished run   *)
(* has written exactly one file per object of the collection (object names *)
(* are pairwise distinct), each file holding a different object: no export *)
(* of the run overwrites a file of an earlier export of the same run.      *)
(***************************************************************************)
C1_OneFilePerObject ==
    (pc = "done" /\ Injective(name)) =>
        /\ Cardinality(Paths) = Len(Objects)
        /\ \A k \in DOMAIN Objects : \E f \in files : f.content = {Objects[k]}

(***************************************************************************)
(* C2: when the collection "Collection" does not exist, execute() prints   *)
(* "Collection not found." and returns at once: no host operation is       *)
(* called, selection, active object and files are untouched, and the value *)
(* returned is None, neither {'FINISHED'} nor {'CANCELLED'}.               *)
(***************************************************************************)
C2_NotFoundEndsEarly ==
    (~Found /\ pc # "idle") =>
        /\ pc = "returned"
        /\ stdout = <<"Collection not found.">>
        /\ calls = <<>>
        /\ selected = selected0
        /\ active = active0
        /\ files = {}
        /\ ret = "None"
        /\ ret \notin {"{'FINISHED'}", "{'CANCELLED'}"}

C2_Witness ==
    /\ ~Found
    /\ pc = "returned"
    /\ selected0 # {}
    /\ Len(collections["Other"]) > 0

(***************************************************************************)
(* C3: every export call made for an object is given the path              *)
(* os.path.join(output_directory, lower(obj.name) + ".obj"): for the names *)
(* of the model, <output_directory>/cu.obj for "Cu" and for "cu", and the  *)
(* absolute path /l.obj for "/L".  The path is a function of the name.     *)
(***************************************************************************)
C3_ExpectedPath(n) ==
    CASE n = <<"C", "u">> -> output_directory \o <<"/", "c", "u", ".obj">>
      [] n = <<"c", "u">> -> output_directory \o <<"/", "c", "u", ".obj">>
      [] n = <<"/", "L">> -> <<"/", "l", ".obj">>

C3_ExportPath ==
    \A k \in DOMAIN calls :
        calls[k].op = "obj_export" =>
            calls[k].args.filepath = C3_ExpectedPath(name[calls[k].obj])

C3_Witness ==
    /\ pc = "done"
    /\ \E k \in DOMAIN calls :
         calls[k].op = "obj_export" /\ name[calls[k].obj] = <<"C", "u">>
    /\ \E k \in DOMAIN calls :
         calls[k].op = "obj_export" /\ name[calls[k].obj] = <<"/", "L">>

(***************************************************************************)
(* C4: a bake or export call that raises for the k-th object is the last   *)
(* thing execute() does: the call was made once, nothing is baked or       *)
(* exported for a later object, execute() takes no further step and has    *)
(* not returned {'FINISHED'}, the files of objects 1..k-1 are there, and   *)
(* after a failed bake object k has not been exported.                     *)
(***************************************************************************)
C4_FailureNotHandled ==
    \A k \in DOMAIN calls :
        calls[k].result = "raised" =>
            /\ pc = "raised"
            /\ k = Len(calls)
            /\ calls[k].obj = Objects[i]
            /\ Cardinality(CallsOf(calls[k].op, calls[k].obj)) = 1
            /\ \A j \in DOMAIN Objects :
                 j > i => /\ CallsOf("bake", Objects[j]) = {}
                          /\ CallsOf("obj_export", Objects[j]) = {}
            /\ ret = "not returned"
            /\ \A j \in 1..(i - 1) :
                 \E f \in files : f.path = FilePath(name[Objects[j]])
            /\ calls[k].op = "bake" => CallsOf("obj_export", Objects[i]) = {}
            /\ ~ENABLED ExecuteRun

C4_Witness ==
    /\ pc = "raised"
    /\ i = 2
    /\ calls[Len(calls)].op = "bake"
    /\ calls[Len(calls)].result = "raised"
    /\ files # {}

(***************************************************************************)
(* C5: while the class is registered, the menu VIEW3D_MT_object ends with  *)
(* the entry menu_func, which draws "object.bake_and_export", and the      *)
(* entries the menu had before come first, all of them and in their order. *)
(***************************************************************************)
C5_RegisterAppends ==
    registered =>
        /\ Len(menu) > Len(menu0)
        /\ menu[Len(menu)] = "menu_func"
        /\ MenuFuncDraws = "object.bake_and_export"
        /\ SubSeq(menu, 1, Len(menu0)) = menu0
        /\ \A k \in (Len(menu0) + 1)..Len(menu) : menu[k] = "menu_func"

C5_Witness ==
    /\ registered
    /\ menu0 # <<>>
    /\ CountOf(menu, "menu_func") = 1

(***************************************************************************)
(* C6: the bake and export calls of a run are, in order, bake of object 1, *)
(* export of object 1, bake of object 2, ...; a run that finished made     *)
(* exactly n bakes and n exports, one of each per object, and returned     *)
(* {'FINISHED'} (with no call for n = 0); a run in progress can always     *)
(* take its next step, and a started run ends or a host call raises.       *)
(***************************************************************************)
C6_Order ==
    /\ Found =>
         \A k \in DOMAIN BakeExportCalls :
             /\ BakeExportCalls[k].obj = Objects[(k + 1) \div 2]
             /\ BakeExportCalls[k].op
                  = (IF k % 2 = 1 THEN "bake" ELSE "obj_export")
    /\ pc = "done" =>
         /\ Len(BakeExportCalls) = 2 * Len(Objects)
         /\ \A k \in DOMAIN Objects :
              /\ Cardinality(CallsOf("bake", Objects[k])) = 1
              /\ Cardinality(CallsOf("obj_export", Objects[k])) = 1
         /\ ~Failed
         /\ ret = "{'FINISHED'}"
    /\ ret = "{'FINISHED'}" => pc = "done"
    /\ Running => ENABLED ExecuteRun

C6_Sequential ==
    /\ []C6_Order
    /\ (pc = "deselect_all") ~> (pc = "done" \/ Failed)

C6_Witness ==
    /\ pc = "done"
    /\ Len(Objects) = MaxColl
    /\ Len(BakeExportCalls) = 2 * MaxColl

(***************************************************************************)
(* C7: every bake is called with type DIFFUSE and target VERTEX_COLORS,    *)
(* every export with check_existing false, export_selected_objects true,   *)
(* export_colors true, export_materials false, export_triangulated_mesh    *)
(* true (and the same filter_glob): only the filepath differs.             *)
(***************************************************************************)
C7_FixedParameters ==
    \A k \in DOMAIN calls :
        /\ calls[k].op = "bake" =>
             calls[k].args = [type |-> "DIFFUSE", target |-> "VERTEX_COLORS"]
        /\ calls[k].op = "obj_export" =>
             /\ DOMAIN calls[k].args
                  = {"filepath", "check_existing", "export_selected_objects",
                     "export_colors", "export_materials",
                     "export_triangulated_mesh", "filter_glob"}
             /\ calls[k].args.check_existing = FALSE
             /\ calls[k].args.export_selected_objects = TRUE
             /\ calls[k].args.export_colors = TRUE
             /\ calls[k].args.export_materials = FALSE
             /\ calls[k].args.export_triangulated_mesh = TRUE
             /\ calls[k].args.filter_glob = "*.obj;"

C7_Witness ==
    /\ Len(BakeExportCalls) = 4
    /\ BakeExportCalls[2].args.filepath # BakeExportCalls[4].args.filepath

(***************************************************************************)
(* C8: whenever execute() is about to bake or export an object, and in     *)
(* every bake and export call it made, that object is the only selected    *)
(* object and the active object, whatever was selected or active before;   *)
(* so every file written holds exactly the object it was written for.      *)
(***************************************************************************)
C8_OnlyCurrentSelected ==
    /\ pc \in {"bake", "export"} =>
         selected = {Objects[i]} /\ active = Objects[i]
    /\ \A k \in DOMAIN calls :
         IsBakeOrExport(calls[k]) =>
             /\ calls[k].selected = {calls[k].obj}
             /\ calls[k].active = calls[k].obj
    /\ \A f \in files :
         \E k \in DOMAIN Objects :
             /\ f.content = {Objects[k]}
             /\ f.path = FilePath(name[Objects[k]])

C8_Witness ==
    /\ pc = "export"
    /\ i = 2
    /\ \E o \in selected0 : o \notin Range(Objects)
    /\ Objects[1] \in selected0
    /\ active0 \notin {None, Objects[2]}

(***************************************************************************)
(* C9: when execute() has returned {'FINISHED'} no object is selected,     *)
(* whatever was selected before and for every collection size; the former  *)
(* selection and active object are not put back: the active object is the  *)
(* last object processed (for an empty collection it was never assigned).  *)
(***************************************************************************)
C9_NothingSelectedAtEnd ==
    ret = "{'FINISHED'}" =>
        /\ selected = {}
        /\ Len(Objects) > 0 => active = Objects[Len(Objects)]
        /\ Len(Objects) = 0 => active = active0

C9_Witness ==
    /\ ret = "{'FINISHED'}"
    /\ Len(Objects) = MaxColl
    /\ selected0 # {}
    /\ active0 # active

(***************************************************************************)
(* C10: unregister() reverses register(): whenever the class is not        *)
(* registered, the menu VIEW3D_MT_object holds the entries it had before   *)
(* the first register(), and no entry drawing "object.bake_and_export".    *)
(***************************************************************************)
C10_UnregisterReverses ==
    ~registered =>
        /\ menu = menu0
        /\ CountOf(menu, "menu_func") = 0
====
